---- MODULE Spec2Model ----
(***************************************************************************)
(* A model of ObsCalMer.py (class ObspyCatalogMerger): the proximity test  *)
(* ComputeDiff, the weight reader ReadExtra, the phase filter FilterPhase, *)
(* the deduplicator ManageNewPicks, the resolver ReviewEventPicks, the     *)
(* merge UpdateEvent and the driver MergeCatalog.                          *)
(*                                                                         *)
(* Python strings are sequences of one-character strings, so that the      *)
(* substring tests ("S" in phase_hint), "_".join and float() are computed  *)
(* rather than assumed.  Python lists are sequences; list indices keep     *)
(* their 0-based values.  An exception is a value of the field exc.        *)
(***************************************************************************)
EXTENDS Integers, Sequences, FiniteSets, TLC

VARIABLES
    configs,            \* self.configs (with OriginTimeShift, EpicentralShift)
    RefCat,             \* self.RefCat, the reference events (mutated in place)
    ComCat,             \* self.ComCat, the compared events
    TarCat,             \* self.TarCat
    ComEventsCat,       \* self.ComEventsCat
    numCommonEvents,    \* self.numCommonEvents
    numNewPhaseP,       \* self.numNewPhaseP
    numNewPhaseS,       \* self.numNewPhaseS
    numNewAmplitudes,   \* self.numNewAmplitudes
    numRegardedPhases,  \* self.numRegardedPhases
    pc,                 \* position in the running method
    refIdx,             \* position of the outer loop of MergeCatalog (1-based)
    comIdx,             \* position of the inner loop of MergeCatalog (1-based)
    exc,                \* the exception that ended the run, "" when none
    last,               \* record of the last call: its inputs and its results
    log                 \* history of MergeCatalog: the calls it has made

vars == <<configs, RefCat, ComCat, TarCat, ComEventsCat, numCommonEvents,
          numNewPhaseP, numNewPhaseS, numNewAmplitudes, numRegardedPhases,
          pc, refIdx, comIdx, exc, last, log>>

-----------------------------------------------------------------------------
(* Bounds of the model *)

MaxPicks == 3        \* picks of the event handed to ReviewEventPicks
MaxRefPicks == 1     \* picks of the reference event of a merge
MaxComPicks == 2     \* picks of the compared event of a merge
MaxRefEvents == 2    \* events of the reference catalog
MaxComEvents == 2    \* events of the compared catalog

-----------------------------------------------------------------------------
(* Python strings and lists *)

Range(s) == {s[k] : k \in 1..Len(s)}

\* sub in s, for Python strings
Contains(sub, s) ==
    \E k \in 1..(Len(s) - Len(sub) + 1) : SubSeq(s, k, k + Len(sub) - 1) = sub

\* sep.join(parts)
RECURSIVE Join(_, _)
Join(sep, parts) ==
    IF Len(parts) = 0 THEN <<>>
    ELSE IF Len(parts) = 1 THEN parts[1]
    ELSE parts[1] \o sep \o Join(sep, Tail(parts))

\* lst.index(x): the 0-based position of the first element equal to x
Index(lst, x) ==
    (CHOOSE k \in 1..Len(lst) : lst[k] = x /\ \A m \in 1..(k-1) : lst[m] # x) - 1

\* lst.pop(k) for the 1-based position k: the list without that element
Pop(lst, k) == SubSeq(lst, 1, k - 1) \o SubSeq(lst, k + 1, Len(lst))

Digits == <<"0", "1", "2", "3", "4", "5", "6", "7", "8", "9">>

DigitValue(c) == (CHOOSE d \in 1..10 : Digits[d] = c) - 1

\* float(w) for a string of decimal digits; anything else is a ValueError
RECURSIVE DecimalValue(_)
DecimalValue(w) ==
    IF Len(w) = 0 THEN 0
    ELSE 10 * DecimalValue(SubSeq(w, 1, Len(w) - 1)) + DigitValue(w[Len(w)])

Float(w) ==
    IF Len(w) > 0 /\ \A k \in 1..Len(w) : w[k] \in Range(Digits)
    THEN [exc |-> "", val |-> DecimalValue(w)]
    ELSE [exc |-> "ValueError", val |-> 0]

\* the orders in which iterating a Python set can yield its elements
SetOrders(S) == {f \in [1..Cardinality(S) -> S] : Range(f) = S}

-----------------------------------------------------------------------------
(* The data model: picks, arrivals, amplitudes, events *)

P_ == <<"P">>
S_ == <<"S">>
AML_ == <<"A", "M", "L">>
STA1 == <<"S", "T", "A", "1">>
STA2 == <<"S", "T", "A", "2">>

\* pick.extra: the attribute may be missing ("noattr"), may lack the key
\* nordic_pick_weight ("nokey"), may hold a string ("str") or a dict with
\* ("dict") or without ("dictnovalue") the key "value"
Extra(kind, value) == [kind |-> kind, value |-> value]

Pick(id, sta, ph, extra) ==
    [resource_id |-> id, station_code |-> sta, phase_hint |-> ph, extra |-> extra]

Arrival(pickId) == [pick_id |-> pickId]

Amplitude(id, pickId) == [resource_id |-> id, pick_id |-> pickId]

\* arrivals stands for preferred_origin().arrivals
Event(time, lat, lon, picks, arrivals, amplitudes) ==
    [time |-> time, latitude |-> lat, longitude |-> lon,
     picks |-> picks, arrivals |-> arrivals, amplitudes |-> amplitudes]

-----------------------------------------------------------------------------
(* ComputeDiff *)

Abs(x) == IF x < 0 THEN -x ELSE x

\* gps2dist_azimuth(lat1, lon1, lat2, lon2): the tuple whose first element
\* is the distance in metres.  The geodesic is a library function; the
\* model's coordinates lie on a line grid of one kilometre per unit.
gps(lat1, lon1, lat2, lon2) ==
    <<1000 * (Abs(lat1 - lat2) + Abs(lon1 - lon2)), 0, 0>>

\* ComputeDiff with thresholds that are met when reached
ComputeDiff_Inclusive(RefEvent, ComEvent) ==
    LET dT == Abs(RefEvent.time - ComEvent.time)
        dD == Abs(gps(RefEvent.latitude, RefEvent.longitude,
                      ComEvent.latitude, ComEvent.longitude)[1] \div 1000)
    IN  dT <= configs.OriginTimeShift /\ dD <= configs.EpicentralShift

\* lines 33-44: true iff both differences are below their thresholds
ComputeDiff(RefEvent, ComEvent) ==
    LET dT == Abs(RefEvent.time - ComEvent.time)
        dD == Abs(gps(RefEvent.latitude, RefEvent.longitude,
                      ComEvent.latitude, ComEvent.longitude)[1] \div 1000)
    IN  IF dT < configs.OriginTimeShift /\ dD < configs.EpicentralShift
        THEN TRUE
        ELSE FALSE

-----------------------------------------------------------------------------
(* ReadExtra, FilterPhase *)

\* lines 57-63: only AttributeError is caught; a dict without "value" raises
\* KeyError; a string is returned as it is stored
ReadExtra(pick) ==
    CASE pick.extra.kind = "noattr" -> [exc |-> "", val |-> <<"0">>]
      [] pick.extra.kind = "nokey" -> [exc |-> "", val |-> <<"0">>]
      [] pick.extra.kind = "str" -> [exc |-> "", val |-> pick.extra.value]
      [] pick.extra.kind = "dict" -> [exc |-> "", val |-> pick.extra.value]
      [] pick.extra.kind = "dictnovalue" -> [exc |-> "KeyError", val |-> <<>>]

\* FilterPhase without the test of AddPhaseS
FilterPhase_SkipsS(pick) ==
    IF ~configs.AddPhaseP /\ Contains(P_, pick.phase_hint) THEN FALSE
    ELSE IF ~configs.AddAmplitude /\ Contains(AML_, pick.phase_hint) THEN FALSE
    ELSE TRUE

\* lines 74-80
FilterPhase(pick) ==
    IF ~configs.AddPhaseP /\ Contains(P_, pick.phase_hint) THEN FALSE
    ELSE IF ~configs.AddPhaseS /\ Contains(S_, pick.phase_hint) THEN FALSE
    ELSE IF ~configs.AddAmplitude /\ Contains(AML_, pick.phase_hint) THEN FALSE
    ELSE TRUE

-----------------------------------------------------------------------------
(* ManageNewPicks *)

\* the first exception among the results of a sequence of evaluations
FirstExc(excs) ==
    IF \E k \in 1..Len(excs) : excs[k] # ""
    THEN excs[CHOOSE k \in 1..Len(excs) :
                  excs[k] # "" /\ \A m \in 1..(k-1) : excs[m] = ""]
    ELSE ""

\* "_".join([station_code, phase_hint, ReadExtra(pick)])
Remark(pick) ==
    Join(<<"_">>, <<pick.station_code, pick.phase_hint, ReadExtra(pick).val>>)

\* None of Python, the remark of a pick the filter excludes
None == <<>>

\* lines 93-94
RefEventPickRemarks(RefEventPicks) ==
    [k \in 1..Len(RefEventPicks) |-> Remark(RefEventPicks[k])]

\* lines 95-96
ComEventPickRemarks(ComEventPicks) ==
    [k \in 1..Len(ComEventPicks) |->
        IF FilterPhase(ComEventPicks[k]) THEN Remark(ComEventPicks[k]) ELSE None]

\* line 97 without filter(None, ...)
NewPickSet_KeepsNone(RefEventPicks, ComEventPicks) ==
    Range(ComEventPickRemarks(ComEventPicks))
        \ Range(RefEventPickRemarks(RefEventPicks))

\* line 97, as a set: set(Com) - set(Ref) without its falsy members
NewPickSet(RefEventPicks, ComEventPicks) ==
    {r \in Range(ComEventPickRemarks(ComEventPicks))
            \ Range(RefEventPickRemarks(RefEventPicks)) : r # None /\ r # <<>>}

\* line 97, as a list: the set is iterated in an order Python does not fix
NewPicksOrders(RefEventPicks, ComEventPicks) ==
    SetOrders(NewPickSet(RefEventPicks, ComEventPicks))

\* the exception lines 93-96 end in, "" when none
ManageNewPicksExc(RefEventPicks, ComEventPicks) ==
    FirstExc([k \in 1..Len(RefEventPicks) |-> ReadExtra(RefEventPicks[k]).exc]
             \o [k \in 1..Len(ComEventPicks) |->
                    IF FilterPhase(ComEventPicks[k])
                    THEN ReadExtra(ComEventPicks[k]).exc ELSE ""])

\* ManageNewPicks counting only the compared picks that pass the filter
ManageNewPicks_CountsKept(RefEventPicks, ComEventPicks, numRegarded, newPicks) ==
    LET Com == ComEventPickRemarks(ComEventPicks)
        Kept == SelectSeq(Com, LAMBDA r : r # None)
    IN  [newPicksIndex |-> [k \in 1..Len(newPicks) |-> Index(Com, newPicks[k])],
         numRegardedPhases |-> numRegarded + (Len(Kept) - Len(newPicks)),
         exc |-> ManageNewPicksExc(RefEventPicks, ComEventPicks)]

\* lines 93-101; newPicks is the list of line 97
ManageNewPicks(RefEventPicks, ComEventPicks, numRegarded, newPicks) ==
    LET Com == ComEventPickRemarks(ComEventPicks)
    IN  [newPicksIndex |-> [k \in 1..Len(newPicks) |-> Index(Com, newPicks[k])],
         numRegardedPhases |-> numRegarded + (Len(Com) - Len(newPicks)),
         exc |-> ManageNewPicksExc(RefEventPicks, ComEventPicks)]

-----------------------------------------------------------------------------
(* ReviewEventPicks *)

\* line 120 with the comparison turned round
Outweighs_Reversed(trialPick, pick) ==
    /\ <<trialPick.station_code, trialPick.phase_hint>>
         = <<pick.station_code, pick.phase_hint>>
    /\ Float(ReadExtra(trialPick).val).val < Float(ReadExtra(pick).val).val

\* line 120, for the trial pick and the pick of the inner loop
Outweighs(trialPick, pick) ==
    /\ <<trialPick.station_code, trialPick.phase_hint>>
         = <<pick.station_code, pick.phase_hint>>
    /\ Float(ReadExtra(trialPick).val).val > Float(ReadExtra(pick).val).val

\* lines 113-121: the resource ids the scan collects
IgnoredResource_id(picks) ==
    {picks[t].resource_id : t \in
        {t \in 1..Len(picks) : \E c \in 1..Len(picks) : Outweighs(picks[t], picks[c])}}

\* the exceptions of one round of the inner loop, lines 115-120, in order
PairExc(trialPick, pick) ==
    FirstExc(<<ReadExtra(trialPick).exc, ReadExtra(pick).exc>>
             \o (IF <<trialPick.station_code, trialPick.phase_hint>>
                      = <<pick.station_code, pick.phase_hint>>
                 THEN <<Float(ReadExtra(trialPick).val).exc,
                        Float(ReadExtra(pick).val).exc>>
                 ELSE <<>>))

\* the exception the scan of lines 114-121 ends in, "" when none
ReviewExc(picks) ==
    LET n == Len(picks)
    IN  FirstExc([p \in 1..(n * n) |->
            PairExc(picks[((p - 1) \div n) + 1], picks[((p - 1) % n) + 1])])

\* for i, x in enumerate(lst): if key(x) in Ignored: lst.pop(i)
\* keys[k] is the tested attribute of lst[k].  The iterator moves on by one
\* after a pop, and so passes over the element that took the popped one's
\* place
RECURSIVE PopWhileIterating(_, _, _, _)
PopWhileIterating(lst, keys, k, Ignored) ==
    IF k > Len(lst) THEN lst
    ELSE IF keys[k] \in Ignored
         THEN PopWhileIterating(Pop(lst, k), Pop(keys, k), k + 1, Ignored)
         ELSE PopWhileIterating(lst, keys, k + 1, Ignored)

\* lines 122-124
ReviewPicks(picks, Ignored) ==
    PopWhileIterating(picks, [k \in 1..Len(picks) |-> picks[k].resource_id],
                      1, Ignored)

\* lines 125-127: the test reads the amplitude's own resource_id
ReviewAmplitudes(amplitudes, Ignored) ==
    PopWhileIterating(amplitudes,
                      [k \in 1..Len(amplitudes) |-> amplitudes[k].resource_id],
                      1, Ignored)

\* lines 128-130
ReviewArrivals(arrivals, Ignored) ==
    PopWhileIterating(arrivals, [k \in 1..Len(arrivals) |-> arrivals[k].pick_id],
                      1, Ignored)

\* lines 104-131: the event after the pass, and the exception that ended it
ReviewEventPicks(Ev) ==
    IF ReviewExc(Ev.picks) # ""
    THEN [Event |-> Ev, exc |-> ReviewExc(Ev.picks)]
    ELSE LET Ignored == IgnoredResource_id(Ev.picks)
         IN  [Event |-> [Ev EXCEPT
                            !.picks = ReviewPicks(Ev.picks, Ignored),
                            !.amplitudes = ReviewAmplitudes(Ev.amplitudes, Ignored),
                            !.arrivals = ReviewArrivals(Ev.arrivals, Ignored)],
              exc |-> ""]

-----------------------------------------------------------------------------
(* UpdateEvent *)

\* lines 157-171: the loop over newPicksIndex, from its k-th element on;
\* acc holds the three lists of the reference event and the three counters
RECURSIVE UpdateLoop(_, _, _, _)
UpdateLoop(acc, ComEvent, newPicksIndex, k) ==
    IF k > Len(newPicksIndex) THEN acc
    ELSE
      LET newPick == ComEvent.picks[newPicksIndex[k] + 1]
          newPickResource_id == newPick.resource_id
          newArrivals ==
              SelectSeq(ComEvent.arrivals,
                        LAMBDA arrival : arrival.pick_id = newPickResource_id)
          newAmplitudes ==
              SelectSeq(ComEvent.amplitudes,
                        LAMBDA amplitude : amplitude.pick_id = newPickResource_id)
          isP == Contains(P_, newPick.phase_hint)
          isS == ~isP /\ Contains(S_, newPick.phase_hint)
          isA == ~isP /\ ~isS /\ Contains(AML_, newPick.phase_hint)
      IN  UpdateLoop(
            [picks |-> Append(acc.picks, newPick),
             arrivals |-> acc.arrivals \o newArrivals,
             amplitudes |-> acc.amplitudes \o newAmplitudes,
             numNewPhaseP |-> acc.numNewPhaseP + (IF isP THEN 1 ELSE 0),
             numNewPhaseS |-> acc.numNewPhaseS + (IF isS THEN 1 ELSE 0),
             numNewAmplitudes |-> acc.numNewAmplitudes + (IF isA THEN 1 ELSE 0)],
            ComEvent, newPicksIndex, k + 1)

\* lines 147-176; newPicks is the list of line 97.  merged is the reference
\* event after line 173, before the optional pass of line 175
UpdateEvent(RefEvent, ComEvent, nP, nS, nRegarded, nA, newPicks) ==
    LET managed == ManageNewPicks(RefEvent.picks, ComEvent.picks, nRegarded, newPicks)
        acc == UpdateLoop([picks |-> RefEvent.picks,
                           arrivals |-> RefEvent.arrivals,
                           amplitudes |-> RefEvent.amplitudes,
                           numNewPhaseP |-> nP,
                           numNewPhaseS |-> nS,
                           numNewAmplitudes |-> nA],
                          ComEvent, managed.newPicksIndex, 1)
        merged == [RefEvent EXCEPT !.picks = acc.picks,
                                   !.arrivals = acc.arrivals,
                                   !.amplitudes = acc.amplitudes]
        reviewed == IF configs.ReplaceNewPhaseOnlyWithHigherWeight
                    THEN ReviewEventPicks(merged)
                    ELSE [Event |-> merged, exc |-> ""]
    IN  IF managed.exc # ""
        THEN [RefEvent |-> RefEvent, numNewPhaseP |-> nP, numNewPhaseS |-> nS,
              numRegardedPhases |-> nRegarded, numNewAmplitudes |-> nA,
              newPicksIndex |-> <<>>, merged |-> RefEvent, exc |-> managed.exc]
        ELSE [RefEvent |-> reviewed.Event,
              numNewPhaseP |-> acc.numNewPhaseP,
              numNewPhaseS |-> acc.numNewPhaseS,
              numRegardedPhases |-> managed.numRegardedPhases,
              numNewAmplitudes |-> acc.numNewAmplitudes,
              newPicksIndex |-> managed.newPicksIndex,
              merged |-> merged,
              exc |-> reviewed.exc]

-----------------------------------------------------------------------------
(* Inputs: the events and settings a run can be given *)

\* resource ids are unique to their object: catalog, event, kind, position
PickId(cat, k) == <<cat[1], cat[2], "pick", k>>
AmplitudeId(cat, k) == <<cat[1], cat[2], "amplitude", k>>

\* config.json
Configs(P, S, A, W, dt, dd) ==
    [AddPhaseP |-> P, AddPhaseS |-> S, AddAmplitude |-> A,
     ReplaceNewPhaseOnlyWithHigherWeight |-> W,
     OriginTimeShift |-> dt, EpicentralShift |-> dd]

\* a pick list from a list of (station, phase, extra) triples
PicksOf(cat, kinds) ==
    [k \in 1..Len(kinds) |-> Pick(PickId(cat, k), kinds[k][1], kinds[k][2], kinds[k][3])]

\* one arrival for each pick whose position is in mask, in the picks' order
ArrivalsOf(picks, mask) ==
    LET withArrival == SelectSeq(picks, LAMBDA p : p.resource_id[4] \in mask)
    IN  [k \in 1..Len(withArrival) |-> Arrival(withArrival[k].resource_id)]

\* one amplitude for each amplitude pick, in the picks' order
AmplitudesOf(cat, picks) ==
    LET amps == SelectSeq(picks, LAMBDA p : Contains(AML_, p.phase_hint))
    IN  [k \in 1..Len(amps) |->
            Amplitude(AmplitudeId(cat, amps[k].resource_id[4]), amps[k].resource_id)]

\* an event whose arrivals and amplitudes all reference picks of its own
EventOf(cat, time, lat, kinds, mask) ==
    LET picks == PicksOf(cat, kinds)
    IN  Event(time, lat, 0, picks, ArrivalsOf(picks, mask), AmplitudesOf(cat, picks))

SeqsUpTo(S, n) == UNION {[1..m -> S] : m \in 0..n}

NoEvent == Event(0, 0, 0, <<>>, <<>>, <<>>)

\* nothing has been called yet
NoCall ==
    [op |-> "", Ref |-> NoEvent, Com |-> NoEvent, newPicks |-> <<>>,
     newPicksIndex |-> <<>>, merged |-> NoEvent, regardedBefore |-> 0,
     result |-> FALSE]

-----------------------------------------------------------------------------
(* SpecResolve: ReviewEventPicks applied to one event *)

ResolveKeys == {<<STA1, P_>>, <<STA1, AML_>>, <<STA2, P_>>}

ResolveExtras ==
    {Extra("noattr", <<>>), Extra("str", <<"1">>), Extra("dict", <<"2">>),
     Extra("str", <<"x">>), Extra("dictnovalue", <<>>)}

ResolveKinds == {<<key[1], key[2], x>> : key \in ResolveKeys, x \in ResolveExtras}

InitResolve ==
    /\ configs = Configs(TRUE, TRUE, TRUE, TRUE, 1, 1)
    /\ \E kinds \in SeqsUpTo(ResolveKinds, MaxPicks) :
         \E mask \in {1..Len(kinds), {}} :
            RefCat = <<EventOf(<<"ref", 1>>, 0, 0, kinds, mask)>>
    /\ ComCat = <<>>
    /\ TarCat = <<>>
    /\ ComEventsCat = <<>>
    /\ numCommonEvents = 0
    /\ numNewPhaseP = 0
    /\ numNewPhaseS = 0
    /\ numNewAmplitudes = 0
    /\ numRegardedPhases = 0
    /\ pc = "ready"
    /\ refIdx = 1
    /\ comIdx = 1
    /\ exc = ""
    /\ last = NoCall
    /\ log = <<>>

\* Event = self.ReviewEventPicks(Event)
ReviewCall ==
    /\ pc = "ready"
    /\ \E r \in {ReviewEventPicks(RefCat[1])} :
           /\ RefCat' = <<r.Event>>
           /\ exc' = r.exc
           /\ pc' = IF r.exc = "" THEN "done" ELSE "error"
           /\ last' = [NoCall EXCEPT !.op = "ReviewEventPicks", !.Ref = RefCat[1]]
    /\ UNCHANGED <<configs, ComCat, TarCat, ComEventsCat, numCommonEvents,
                   numNewPhaseP, numNewPhaseS, numNewAmplitudes,
                   numRegardedPhases, refIdx, comIdx, log>>

NextResolve == ReviewCall

SpecResolve == InitResolve /\ [][NextResolve]_vars

-----------------------------------------------------------------------------
(* SpecMerge: UpdateEvent applied to a reference and a compared event, or  *)
(* to one event on both sides                                              *)

MergeKinds ==
    {<<STA1, P_, Extra("str", <<"1">>)>>,
     <<STA2, S_, Extra("noattr", <<>>)>>,
     <<STA2, S_, Extra("str", <<"0">>)>>,
     <<STA1, AML_, Extra("str", <<"1">>)>>,
     <<STA1, AML_, Extra("dict", <<"2">>)>>}

InitMerge ==
    /\ \E P \in BOOLEAN, S \in BOOLEAN, A \in BOOLEAN, W \in BOOLEAN :
         configs = Configs(P, S, A, W, 1, 1)
    /\ \E kinds \in SeqsUpTo(MergeKinds, MaxRefPicks) :
         RefCat = <<EventOf(<<"ref", 1>>, 0, 0, kinds, 1..Len(kinds))>>
    /\ \E kinds \in SeqsUpTo(MergeKinds, MaxComPicks) :
         ComCat = <<EventOf(<<"com", 1>>, 0, 0, kinds, 1..Len(kinds))>>
    /\ TarCat = <<>>
    /\ ComEventsCat = <<>>
    /\ numCommonEvents = 0
    /\ numNewPhaseP = 0
    /\ numNewPhaseS = 0
    /\ numNewAmplitudes = 0
    /\ numRegardedPhases \in {0, 1}
    /\ pc = "ready"
    /\ refIdx = 1
    /\ comIdx = 1
    /\ exc = ""
    /\ last = NoCall
    /\ log = <<>>

\* the assignments of lines 190-191 from the result r of UpdateEvent
Counted(r) ==
    /\ numNewPhaseP' = r.numNewPhaseP
    /\ numNewPhaseS' = r.numNewPhaseS
    /\ numRegardedPhases' = r.numRegardedPhases
    /\ numNewAmplitudes' = r.numNewAmplitudes

\* what a call of UpdateEvent was given and what it computed
Called(op, RefEvent, ComEvent, newPicks, r) ==
    [op |-> op, Ref |-> RefEvent, Com |-> ComEvent, newPicks |-> newPicks,
     newPicksIndex |-> r.newPicksIndex, merged |-> r.merged,
     regardedBefore |-> numRegardedPhases, result |-> TRUE]

\* RefEvent, ... = self.UpdateEvent(RefEvent, ComEvent, ...)
MergeCall ==
    /\ pc = "ready"
    /\ \E newPicks \in NewPicksOrders(RefCat[1].picks, ComCat[1].picks) :
         \E r \in {UpdateEvent(RefCat[1], ComCat[1], numNewPhaseP, numNewPhaseS,
                             numRegardedPhases, numNewAmplitudes, newPicks)} :
             /\ RefCat' = <<r.RefEvent>>
             /\ Counted(r)
             /\ exc' = r.exc
             /\ pc' = IF r.exc = "" THEN "done" ELSE "error"
             /\ last' = Called("Merge", RefCat[1], ComCat[1], newPicks, r)
    /\ UNCHANGED <<configs, ComCat, TarCat, ComEventsCat, numCommonEvents,
                   refIdx, comIdx, log>>

\* Event, ... = self.UpdateEvent(Event, Event, ...): the same event on both
\* sides
SelfMergeCall ==
    /\ pc = "ready"
    /\ \E newPicks \in NewPicksOrders(ComCat[1].picks, ComCat[1].picks) :
         \E r \in {UpdateEvent(ComCat[1], ComCat[1], numNewPhaseP, numNewPhaseS,
                             numRegardedPhases, numNewAmplitudes, newPicks)} :
             /\ ComCat' = <<r.RefEvent>>
             /\ Counted(r)
             /\ exc' = r.exc
             /\ pc' = IF r.exc = "" THEN "done" ELSE "error"
             /\ last' = Called("SelfMerge", ComCat[1], ComCat[1], newPicks, r)
    /\ UNCHANGED <<configs, RefCat, TarCat, ComEventsCat, numCommonEvents,
                   refIdx, comIdx, log>>

NextMerge == MergeCall \/ SelfMergeCall

SpecMerge == InitMerge /\ [][NextMerge]_vars

-----------------------------------------------------------------------------
(* Spec: MergeCatalog over a reference and a compared catalog *)

\* origins (time, latitude) of the reference and of the compared events
RefOrigins == {<<0, 0>>, <<1, 1>>}
ComOrigins == {<<t, lat>> : t \in {0, 1, 2}, lat \in {0, 1}}

\* thresholds OriginTimeShift (s) and EpicentralShift (km) of config.json
TimeShifts == {1, 2}
EpicShifts == {1, 2}

RefKinds == <<<<STA1, P_, Extra("str", <<"1">>)>>>>
ComKinds == <<<<STA1, P_, Extra("str", <<"1">>)>>, <<STA2, S_, Extra("noattr", <<>>)>>>>

RefCatOf(origins) ==
    [r \in 1..Len(origins) |->
        EventOf(<<"ref", r>>, origins[r][1], origins[r][2], RefKinds, 1..Len(RefKinds))]

ComCatOf(origins) ==
    [c \in 1..Len(origins) |->
        EventOf(<<"com", c>>, origins[c][1], origins[c][2], ComKinds, 1..Len(ComKinds))]

\* lines 12-20: the state after construction; the counters are not set yet
Init ==
    /\ \E W \in BOOLEAN, dt \in TimeShifts, dd \in EpicShifts :
         configs = Configs(TRUE, TRUE, TRUE, W, dt, dd)
    /\ \E origins \in SeqsUpTo(RefOrigins, MaxRefEvents) :
         Len(origins) >= 1 /\ RefCat = RefCatOf(origins)
    /\ \E origins \in SeqsUpTo(ComOrigins, MaxComEvents) :
         ComCat = ComCatOf(origins)
    /\ TarCat = <<>>
    /\ ComEventsCat = <<>>
    /\ numCommonEvents = 0
    /\ numNewPhaseP = 0
    /\ numNewPhaseS = 0
    /\ numNewAmplitudes = 0
    /\ numRegardedPhases = 0
    /\ pc = "start"
    /\ refIdx = 1
    /\ comIdx = 1
    /\ exc = ""
    /\ last = NoCall
    /\ log = <<>>

\* lines 181-186
MergeCatalogStart ==
    /\ pc = "start"
    /\ numCommonEvents' = 0
    /\ numNewPhaseP' = 0
    /\ numNewPhaseS' = 0
    /\ numNewAmplitudes' = 0
    /\ numRegardedPhases' = 0
    /\ pc' = "scan"
    /\ refIdx' = 1
    /\ comIdx' = 1
    /\ UNCHANGED <<configs, RefCat, ComCat, TarCat, ComEventsCat, exc, last, log>>

\* an entry of the history: a call of ComputeDiff or of UpdateEvent
Logged(op, r, c, result) == [op |-> op, ref |-> r, com |-> c, result |-> result]

\* lines 188-189, ComputeDiff false: on to the next compared event
DifferentEvents ==
    /\ pc = "scan"
    /\ refIdx <= Len(RefCat)
    /\ comIdx <= Len(ComCat)
    /\ ~ComputeDiff(RefCat[refIdx], ComCat[comIdx])
    /\ comIdx' = comIdx + 1
    /\ log' = Append(log, Logged("ComputeDiff", refIdx, comIdx, FALSE))
    /\ UNCHANGED <<configs, RefCat, ComCat, TarCat, ComEventsCat, numCommonEvents,
                   numNewPhaseP, numNewPhaseS, numNewAmplitudes, numRegardedPhases,
                   pc, refIdx, exc, last>>

\* a reference event without a compared event left to examine
LeaveInnerLoop_NoBreak ==
    /\ comIdx' = comIdx + 1
    /\ UNCHANGED <<TarCat, refIdx>>

\* lines 194-195: break, and the reference event goes to the target catalog
LeaveInnerLoop ==
    /\ TarCat' = Append(TarCat, RefCat'[refIdx])
    /\ refIdx' = refIdx + 1
    /\ comIdx' = 1

\* lines 188-195, ComputeDiff true: the reference event is updated and
\* recorded, the inner loop is left, the event goes to the target catalog
CommonEvents ==
    /\ pc = "scan"
    /\ refIdx <= Len(RefCat)
    /\ comIdx <= Len(ComCat)
    /\ ComputeDiff(RefCat[refIdx], ComCat[comIdx])
    /\ \E newPicks \in NewPicksOrders(RefCat[refIdx].picks, ComCat[comIdx].picks) :
         \E r \in {UpdateEvent(RefCat[refIdx], ComCat[comIdx], numNewPhaseP,
                               numNewPhaseS, numRegardedPhases, numNewAmplitudes,
                               newPicks)} :
             /\ RefCat' = [RefCat EXCEPT ![refIdx] = r.RefEvent]
             /\ Counted(r)
             /\ exc' = r.exc
             /\ last' = Called("Merge", RefCat[refIdx], ComCat[comIdx], newPicks, r)
             /\ IF r.exc = ""
                THEN /\ ComEventsCat' = Append(ComEventsCat, r.RefEvent)
                     /\ numCommonEvents' = numCommonEvents + 1
                     /\ LeaveInnerLoop
                     /\ pc' = "scan"
                ELSE /\ pc' = "error"
                     /\ UNCHANGED <<ComEventsCat, numCommonEvents, TarCat,
                                    refIdx, comIdx>>
    /\ log' = log \o <<Logged("ComputeDiff", refIdx, comIdx, TRUE),
                       Logged("UpdateEvent", refIdx, comIdx, TRUE)>>
    /\ UNCHANGED <<configs, ComCat>>

\* lines 188 and 195: no compared event is left; the reference event goes
\* to the target catalog as it is
NoCommonEvent ==
    /\ pc = "scan"
    /\ refIdx <= Len(RefCat)
    /\ comIdx > Len(ComCat)
    /\ TarCat' = Append(TarCat, RefCat[refIdx])
    /\ refIdx' = refIdx + 1
    /\ comIdx' = 1
    /\ UNCHANGED <<configs, RefCat, ComCat, ComEventsCat, numCommonEvents,
                   numNewPhaseP, numNewPhaseS, numNewAmplitudes, numRegardedPhases,
                   pc, exc, last, log>>

\* lines 197-199: the catalogs are written
MergeCatalogEnd ==
    /\ pc = "scan"
    /\ refIdx > Len(RefCat)
    /\ pc' = "done"
    /\ UNCHANGED <<configs, RefCat, ComCat, TarCat, ComEventsCat, numCommonEvents,
                   numNewPhaseP, numNewPhaseS, numNewAmplitudes, numRegardedPhases,
                   refIdx, comIdx, exc, last, log>>

Next ==
    \/ MergeCatalogStart
    \/ DifferentEvents
    \/ CommonEvents
    \/ NoCommonEvent
    \/ MergeCatalogEnd

Spec == Init /\ [][Next]_vars

-----------------------------------------------------------------------------
(* Properties of ReviewEventPicks, under SpecResolve *)

SameKey(p, q) ==
    p.station_code = q.station_code /\ p.phase_hint = q.phase_hint

\* the pass of ReviewEventPicks has run to its end on the event last.Ref
Reviewed == last.op = "ReviewEventPicks" /\ pc = "done"

\* the event holds exactly two picks, of one (station, phase) key, whose
\* weights read "1" and "2"
TwoConflictingPicks(Ev) ==
    /\ Len(Ev.picks) = 2
    /\ SameKey(Ev.picks[1], Ev.picks[2])
    /\ ReadExtra(Ev.picks[1]).exc = "" /\ ReadExtra(Ev.picks[2]).exc = ""
    /\ {ReadExtra(Ev.picks[1]).val, ReadExtra(Ev.picks[2]).val} = {<<"1">>, <<"2">>}

\* the picks of the list whose weight reads w
WithWeight(picks, w) == SelectSeq(picks, LAMBDA p : ReadExtra(p).val = w)

ReferentialIntegrity(Ev) ==
    LET ids == {Ev.picks[k].resource_id : k \in 1..Len(Ev.picks)}
    IN  /\ \A k \in 1..Len(Ev.arrivals) : Ev.arrivals[k].pick_id \in ids
        /\ \A k \in 1..Len(Ev.amplitudes) : Ev.amplitudes[k].pick_id \in ids

\* the picks of one key have weights that all read as numbers, no two equal
DistinctWeightsPerKey(Ev) ==
    /\ \A k \in 1..Len(Ev.picks) :
          /\ ReadExtra(Ev.picks[k]).exc = ""
          /\ Float(ReadExtra(Ev.picks[k]).val).exc = ""
    /\ \A k, m \in 1..Len(Ev.picks) :
          (k # m /\ SameKey(Ev.picks[k], Ev.picks[m]))
             => Float(ReadExtra(Ev.picks[k]).val).val
                  # Float(ReadExtra(Ev.picks[m]).val).val

\* C3: after the pass on an event whose picks of one key have pairwise
\* distinct numeric weights, at most one pick per (station, phase) key is
\* left, for any number and any order of picks
C3_AtMostOnePickPerKey ==
    (Reviewed /\ DistinctWeightsPerKey(last.Ref))
        => \A k, m \in 1..Len(RefCat[1].picks) :
              SameKey(RefCat[1].picks[k], RefCat[1].picks[m]) => k = m

\* the stored weight is missing
WeightAbsent(pick) == pick.extra.kind \in {"noattr", "nokey"}

\* the stored weight does not read as a number
WeightMalformed(pick) ==
    pick.extra.kind \in {"str", "dict"} /\ Float(pick.extra.value).exc # ""

\* C7: ReadExtra yields "0" for an absent or malformed weight and the
\* "value" field of a composite one, and so no pass of ReviewEventPicks ends
\* in an error because of a weight
C7_WeightReadingNeverFails ==
    last.op = "ReviewEventPicks"
        => /\ exc = ""
           /\ \A k \in 1..Len(last.Ref.picks) :
                LET pick == last.Ref.picks[k]
                IN  /\ ReadExtra(pick).exc = ""
                    /\ (WeightAbsent(pick) \/ WeightMalformed(pick))
                          => ReadExtra(pick).val = <<"0">>
                    /\ (pick.extra.kind = "dict" /\ ~WeightMalformed(pick))
                          => ReadExtra(pick).val = pick.extra.value

-----------------------------------------------------------------------------
(* Properties of ManageNewPicks and UpdateEvent, under SpecMerge *)

\* a call of UpdateEvent on a reference and a compared event has returned
Merged == last.op = "Merge" /\ pc = "done"

\* the event the call has updated
Updated == RefCat[1]

\* C2: from a reference event whose arrivals and amplitudes all reference
\* picks of its own, after a merge, and after a merge followed by the pass of
\* ReviewEventPicks, every arrival and every amplitude of the event still
\* references one of its picks
C2_ReferentialIntegrity ==
    (Merged /\ ReferentialIntegrity(last.Ref)) => ReferentialIntegrity(Updated)

\* the half of C2 that is about the merge alone: without the option
\* ReplaceNewPhaseOnlyWithHigherWeight the references are kept
C2_MergeAloneKeepsIntegrity ==
    (Merged /\ ReferentialIntegrity(last.Ref)
            /\ ~configs.ReplaceNewPhaseOnlyWithHigherWeight)
        => ReferentialIntegrity(Updated)

\* the picks the loop of UpdateEvent has appended
Appended == SubSeq(last.merged.picks, Len(last.Ref.picks) + 1, Len(last.merged.picks))

SHintPicks(picks) == SelectSeq(picks, LAMBDA p : Contains(S_, p.phase_hint))

\* the compared picks without one
OtherPicks(picks) == SelectSeq(picks, LAMBDA p : ~Contains(S_, p.phase_hint))

\* C8: with AddPhaseS off no compared pick with an "S" hint is appended to
\* the reference picks, and each of them adds one to the regarded counter:
\* the counter grows by their number more than it does without them
C8_PhaseFilterS ==
    (last.op = "Merge" /\ pc = "done" /\ ~configs.AddPhaseS)
        => /\ \A k \in 1..Len(Appended) : ~Contains(S_, Appended[k].phase_hint)
           /\ \A k \in 1..Len(last.newPicksIndex) :
                 ~Contains(S_, last.Com.picks[last.newPicksIndex[k] + 1].phase_hint)
           /\ numRegardedPhases - last.regardedBefore
                = Len(SHintPicks(last.Com.picks))
                  + ManageNewPicks(last.Ref.picks, OtherPicks(last.Com.picks),
                                   0, last.newPicks).numRegardedPhases

C8_Witness ==
    /\ last.op = "Merge" /\ pc = "done" /\ ~configs.AddPhaseS
    /\ Len(SHintPicks(last.Com.picks)) >= 1
    /\ Len(Appended) >= 1
    /\ \A k \in 1..Len(last.Ref.picks) : ~Contains(S_, last.Ref.picks[k].phase_hint)

\* C9: the index list ManageNewPicks returns is ascending, so the appended
\* picks keep the relative order they have in the compared pick list
C9_StableOrder ==
    (last.op = "Merge" /\ pc = "done")
        => \A k, m \in 1..Len(last.newPicksIndex) :
              k < m => last.newPicksIndex[k] < last.newPicksIndex[m]

\* the identity string of a pick: station, phase and weight
Identity(pick) ==
    pick.station_code \o <<"_">> \o pick.phase_hint \o <<"_">>
        \o (IF pick.extra.kind \in {"str", "dict"} THEN pick.extra.value ELSE <<"0">>)

\* the filter's verdict on a pick, read from the settings
Excluded(pick) ==
    \/ ~configs.AddPhaseP /\ Contains(P_, pick.phase_hint)
    \/ ~configs.AddPhaseS /\ Contains(S_, pick.phase_hint)
    \/ ~configs.AddAmplitude /\ Contains(AML_, pick.phase_hint)

\* the identity of the pick is among those of the reference picks
Present(pick, RefPicks) == \E k \in 1..Len(RefPicks) : Identity(RefPicks[k]) = Identity(pick)

\* C10, as stated: the regarded counter grows by the number of compared picks
\* that the filter excludes or whose identity string is among the reference
\* picks', also when compared picks share an identity string
C10_RegardedCount ==
    (last.op = "Merge" /\ pc = "done")
        => numRegardedPhases - last.regardedBefore
             = Cardinality({k \in 1..Len(last.Com.picks) :
                   \/ Excluded(last.Com.picks[k])
                   \/ Present(last.Com.picks[k], last.Ref.picks)})

\* C10, amended: the regarded counter grows by the number of compared picks
\* that are not appended: those the filter excludes, those whose identity
\* string is among the reference picks', and those that repeat the identity
\* string of an earlier compared pick the filter lets pass
C10_RegardedCountsRepeats ==
    (last.op = "Merge" /\ pc = "done")
        => numRegardedPhases - last.regardedBefore
             = Cardinality({k \in 1..Len(last.Com.picks) :
                   \/ Excluded(last.Com.picks[k])
                   \/ Present(last.Com.picks[k], last.Ref.picks)
                   \/ \E m \in 1..(k - 1) :
                         /\ ~Excluded(last.Com.picks[m])
                         /\ Identity(last.Com.picks[m]) = Identity(last.Com.picks[k])})

C10_Witness ==
    /\ last.op = "Merge" /\ pc = "done"
    /\ Len(last.Com.picks) = 2
    /\ ~Excluded(last.Com.picks[1])
    /\ ~Present(last.Com.picks[1], last.Ref.picks)
    /\ Identity(last.Com.picks[1]) = Identity(last.Com.picks[2])
    /\ last.Com.picks[1].extra # last.Com.picks[2].extra
    /\ Len(last.Ref.picks) = 1
    /\ numRegardedPhases = last.regardedBefore + 1

-----------------------------------------------------------------------------
(* Properties of ComputeDiff and MergeCatalog, under Spec *)

\* the entries of the history for the r-th reference event and one operation
LogOf(op, r) == SelectSeq(log, LAMBDA e : e.op = op /\ e.ref = r)

\* the origin-time difference and the epicentral distance, with their signs
TimeDiff(RefEvent, ComEvent) == RefEvent.time - ComEvent.time

Distance(RefEvent, ComEvent) ==
    gps(RefEvent.latitude, RefEvent.longitude,
        ComEvent.latitude, ComEvent.longitude)[1] \div 1000

\* both differences are within the open intervals the thresholds span
Close(RefEvent, ComEvent) ==
    /\ -configs.OriginTimeShift < TimeDiff(RefEvent, ComEvent)
    /\ TimeDiff(RefEvent, ComEvent) < configs.OriginTimeShift
    /\ -configs.EpicentralShift < Distance(RefEvent, ComEvent)
    /\ Distance(RefEvent, ComEvent) < configs.EpicentralShift

\* a difference is exactly its threshold
OnBoundary(RefEvent, ComEvent) ==
    \/ TimeDiff(RefEvent, ComEvent) \in {configs.OriginTimeShift, -configs.OriginTimeShift}
    \/ Distance(RefEvent, ComEvent) \in {configs.EpicentralShift, -configs.EpicentralShift}

\* C5: ComputeDiff is true iff the absolute origin-time difference is below
\* OriginTimeShift and the absolute epicentral distance is below
\* EpicentralShift; a difference equal to its threshold gives false
C5_ProximityTest ==
    \A k \in 1..Len(log) :
        log[k].op = "ComputeDiff"
          => /\ log[k].result = Close(RefCat[log[k].ref], ComCat[log[k].com])
             /\ OnBoundary(RefCat[log[k].ref], ComCat[log[k].com])
                   => log[k].result = FALSE

C5_Witness ==
    \E k \in 1..Len(log) :
        /\ log[k].op = "ComputeDiff"
        /\ log[k].result = FALSE
        /\ TimeDiff(RefCat[log[k].ref], ComCat[log[k].com]) = -configs.OriginTimeShift
        /\ Distance(RefCat[log[k].ref], ComCat[log[k].com]) < configs.EpicentralShift

\* the compared events that pass the proximity test against the r-th
\* reference event
Common(r) == {c \in 1..Len(ComCat) : Close(RefCat[r], ComCat[c])}

Min(S) == CHOOSE x \in S : \A y \in S : x <= y

\* the compared events whose picks the r-th reference event holds
Donors(r) ==
    {RefCat[r].picks[k].resource_id[2] :
        k \in {k \in 1..Len(RefCat[r].picks) : RefCat[r].picks[k].resource_id[1] = "com"}}

\* how often the r-th reference event is in the matched-only catalog
Recorded(r) ==
    Cardinality({k \in 1..Len(ComEventsCat) : ComEventsCat[k] = RefCat[r]})

\* C4: a reference event receives records from at most one compared event,
\* the earliest in catalog order that passes the proximity test; no later
\* compared event is examined for it, the common-event counter is
\* incremented once for it and it is recorded once in the matched-only catalog
C4_GreedyFirstMatch ==
    pc \in {"scan", "done"}
      => /\ \A r \in 1..(refIdx - 1) :
               LET examined == [k \in 1..Len(LogOf("ComputeDiff", r)) |->
                                   LogOf("ComputeDiff", r)[k].com]
                   updates == [k \in 1..Len(LogOf("UpdateEvent", r)) |->
                                   LogOf("UpdateEvent", r)[k].com]
               IN  IF Common(r) = {}
                   THEN /\ updates = <<>>
                        /\ Donors(r) = {}
                        /\ Recorded(r) = 0
                        /\ examined = [k \in 1..Len(ComCat) |-> k]
                   ELSE /\ updates = <<Min(Common(r))>>
                        /\ Donors(r) = {Min(Common(r))}
                        /\ Recorded(r) = 1
                        /\ examined = [k \in 1..Min(Common(r)) |-> k]
         /\ numCommonEvents = Cardinality({r \in 1..(refIdx - 1) : Common(r) # {}})
         /\ Len(ComEventsCat) = numCommonEvents
         /\ Len(TarCat) = refIdx - 1

C4_Witness ==
    /\ pc = "done"
    /\ numCommonEvents = 2
    /\ \E r1, r2 \in 1..Len(RefCat) :
          /\ Common(r1) = {1, 2}
          /\ Common(r2) = {2}
          /\ Donors(r1) = {1}
          /\ Donors(r2) = {2}

====
